---- MODULE Spec2Model ----
(***************************************************************************)
(* A model of bme280.py: a Bus Pirate (the bridge) is driven over a serial *)
(* console into I2C mode and a BME280 temperature sensor is read through   *)
(* it.                                                                     *)
(*                                                                         *)
(* Text is modelled as a sequence of tokens.  A token is a record          *)
(* [k, d]: k is the token's text (or its lexical class), d the hex digits  *)
(* of a "0x.." literal in it (empty when it holds none).  The code only    *)
(* tests text for the presence of fixed markers and scans it for "RX:" and *)
(* "0x.." literals, which is what the operators below do on tokens.        *)
(***************************************************************************)
EXTENDS Integers, Sequences, FiniteSets, TLC

\* ------------------------------------------------------------------ text

W(s) == [k |-> s, d |-> <<>>]
Hex(ds) == [k |-> "0x", d |-> ds]

I2C == W("I2C>")
HiZ == W("HiZ>")
VT100 == W("VT100 compatible color mode?")
ModeSel == W("Mode selection")
PrevSet == W("Use previous settings?")
Speed == W("I2C speed")
Clock == W("Clock stretching")
Volts == W("Volts")
MaxCur == W("Maximum current")
PowerEn == W("Power supply:Enabled")
\* whitespace bytes (CR, LF, blanks), bytes that are no valid text, other text
WS == W(" ")
Bad == W("\\xff")
Junk == W("?")

Range(s) == {s[i] : i \in DOMAIN s}

\* bytes.decode(errors='ignore'): invalid byte sequences are dropped
Decode(bytes) == SelectSeq(bytes, LAMBDA t : t # Bad)

RECURSIVE LStrip(_)
LStrip(s) == IF s # <<>> /\ Head(s) = WS THEN LStrip(Tail(s)) ELSE s

RECURSIVE RStrip(_)
RStrip(s) ==
  IF s # <<>> /\ s[Len(s)] = WS THEN RStrip(SubSeq(s, 1, Len(s) - 1)) ELSE s

\* str.strip(): leading and trailing whitespace is removed
Strip(s) == RStrip(LStrip(s))

\* ser.read(ser.in_waiting).decode(errors='ignore').strip()
ReadAll(buf) == Strip(Decode(buf))

\* marker in response
Contains(resp, marker) == \E i \in DOMAIN resp : resp[i] = marker

\* ------------------------------------------------------------ extraction

RX == W("RX:")
Esc == W("\\x1b[0m")
\* the echo of a read command, "[0xEFr:N]": text with a hex literal inside
Echo == [k |-> "[0x..r:N]", d |-> <<14, 15>>]

\* a value that may be absent (None), or an IndexError in its place
Result(st, v) == [st |-> st, v |-> v]
None == Result("None", <<>>)
NoInt == Result("None", 0)

\* re.sub(r'\x1B\[[0-?]*[ -/]*[@-~]', '', response)
StripAnsi(text) == SelectSeq(text, LAMBDA t : t # Esc)

\* " ".join(response.split())
Normalize(text) == SelectSeq(text, LAMBDA t : t # WS)

\* re.findall(r'0x[0-9A-Fa-f]+', ...) on a run of tokens
RECURSIVE HexLiterals(_)
HexLiterals(text) ==
  IF text = <<>> THEN <<>>
  ELSE (IF Head(text).d # <<>> THEN <<Head(text).d>> ELSE <<>>)
         \o HexLiterals(Tail(text))

\* the places where r'RX:\s*(0x[0-9A-Fa-f]' matches
RxStarts(text) ==
  {i \in 1..(Len(text) - 1) : text[i] = RX /\ text[i + 1].k = "0x"}

\* the group of the first match: '.*' runs to the end of the text
RxGroup(text) ==
  LET i == CHOOSE j \in RxStarts(text) : \A m \in RxStarts(text) : j <= m
  IN SubSeq(text, i + 1, Len(text))

\* extract_rx_data (lines 70-90): the hex literals, or None
extract_rx_data(response) ==
  LET text == Normalize(StripAnsi(response))
  IN IF RxStarts(text) # {}
       THEN Result("ok", HexLiterals(RxGroup(text)))
       ELSE None

\* int(byte, 16)
RECURSIVE HexVal(_)
HexVal(ds) ==
  IF ds = <<>> THEN 0 ELSE 16 * HexVal(SubSeq(ds, 1, Len(ds) - 1)) + ds[Len(ds)]

RECURSIVE BitOr(_, _)
BitOr(a, b) ==
  IF a = 0 THEN b
  ELSE IF b = 0 THEN a
  ELSE (IF a % 2 = 1 \/ b % 2 = 1 THEN 1 ELSE 0) + 2 * BitOr(a \div 2, b \div 2)

Shl(x, n) == x * 2^n
\* Python's >> on integers: floor division
Shr(x, n) == x \div 2^n

\* (a * b) >> n.  TLC's integers have 32 bits and Python's have no bound, so
\* the product is never formed: with a = q * 2^n + r, the value is
\* q * b + ((r * b) >> n), exactly.
MulShr(a, b, n) == (a \div 2^n) * b + ((a % 2^n) * b) \div 2^n

\* extracted_data[:n]
Take(s, n) == SubSeq(s, 1, IF Len(s) < n THEN Len(s) ELSE n)

\* [int(byte, 16) for byte in ...]
Ints(hexes) == [i \in DOMAIN hexes |-> HexVal(hexes[i])]

\* ---------------------------------------------------------------- bridge

\* What the bridge may print in reply to one command line: nothing, blanks,
\* undecodable bytes, unrelated text, or one of its screens.
Screens ==
  { <<>>, <<WS>>, <<Bad>>, <<Junk>>, <<VT100>>, <<HiZ>>, <<I2C>>, <<ModeSel>>,
    <<PrevSet>>, <<Speed>>, <<Clock>>, <<Volts>>, <<MaxCur>>,
    <<PowerEn, I2C>> }

\* The prompt markers of the two modes.
Prompts == {I2C, HiZ}

\* The configuration sub-prompts of mode entry.
SubPrompts == {PrevSet, Speed, Clock}

\* The screen the negotiator looks for after each of its command lines.
Script(step) ==
  CASE step = "color" -> <<HiZ>>
    [] step = "menu" -> <<ModeSel>>
    [] step = "select" -> <<PrevSet>>
    [] step = "prev" -> <<Speed>>
    [] step = "speed" -> <<Clock>>
    [] step = "clock" -> <<I2C>>
    [] step = "verify" -> <<I2C>>
    [] step = "power" -> <<Volts>>
    [] step = "volts" -> <<MaxCur>>
    [] step = "current" -> <<PowerEn, I2C>>

\* ----------------------------------------------------------------- state

VARIABLES
  pc,           \* position of main() / initialize_bus_pirate()
  ser_open,     \* the serial port is open
  inbuf,        \* bytes received and not yet read (ser.in_waiting)
  sent,         \* the command lines written to the port, in order
  response,     \* initialize_bus_pirate: response
  attempt,      \* initialize_bus_pirate: attempt
  init_result,  \* what initialize_bus_pirate returned: "ser" or "None"
  err,          \* which failure message initialize_bus_pirate printed
  observed,     \* the prompt markers read by initialize_bus_pirate so far
  shown,        \* the sub-prompts the bridge printed during mode entry
  scripted,     \* every reply after the first response was Script's screen
  first,        \* the first response that was not empty
  chip_id,      \* get_chip_id's result
  raw_sensor_data, \* read_sensor_data: the response to the 8-byte read
  adc_T,        \* read_sensor_data's result
  raw_calib_data, \* read_calibration_data: the response to the 6-byte read
  dig_T1,
  dig_T2,
  dig_T3,
  temperature,  \* read_temperature's result, in hundredths of a degree
  cycles,       \* passes of main's sampling loop so far
  calibrated,   \* a call of read_calibration_data has returned True
  fn,           \* the blocking call in progress
  delay,        \* send_command: delay, in ms
  now,          \* time.time() since the start of the call, in ms
  timeout_time, \* the call's deadline
  outcome,      \* how the call's loop ended: "prompt" or "timeout"
  prompted,     \* the byte source has delivered a prompt marker
  every_poll,   \* the byte source has delivered data during every sleep
  rx_result,    \* what a call of extract_rx_data returned
  source,       \* the byte source: "free", or "scripted" by stream
  stream,       \* scripted source: the chunks it delivers, one per sleep
  arrived,      \* scripted source: how many chunks of stream have arrived
  stale         \* inbuf holds bytes received before the latest write

negVars ==
  <<pc, ser_open, inbuf, sent, response, attempt, init_result, err, observed,
    shown, scripted, first>>

sensorVars ==
  <<chip_id, raw_sensor_data, adc_T, raw_calib_data, dig_T1, dig_T2, dig_T3,
    temperature, cycles, calibrated>>

callVars ==
  <<fn, delay, now, timeout_time, outcome, prompted, every_poll,
    rx_result, source, stream, arrived>>

vars == <<negVars, sensorVars, callVars, stale>>

\* a sixth pass of the retry loop
MaxAttemptsPlusOne == 5 + 1

\* line 208: range(5)
MaxAttempts == 5

\* bounds of the model
MaxPatterns == 2
MaxRxLen == 9
MaxCycles == 2

\* no blocking call is in progress and nothing has been extracted
NoCall ==
  /\ fn = "none"
  /\ delay = 0
  /\ now = 0
  /\ timeout_time = 0
  /\ outcome = "none"
  /\ prompted = FALSE
  /\ every_poll = TRUE
  /\ rx_result = None
  /\ source = "free"
  /\ stream = <<>>
  /\ arrived = 0

InitMain ==
  /\ pc = "open"
  /\ ser_open = FALSE
  /\ inbuf = <<>>
  /\ sent = <<>>
  /\ response = <<>>
  /\ attempt = 0
  /\ init_result = "pending"
  /\ err = "none"
  /\ observed = {}
  /\ shown = {}
  /\ scripted = TRUE
  /\ first = <<>>
  /\ chip_id = None
  /\ raw_sensor_data = <<>>
  /\ adc_T = NoInt
  /\ raw_calib_data = <<>>
  /\ dig_T1 = 0
  /\ dig_T2 = 0
  /\ dig_T3 = 0
  /\ temperature = NoInt
  /\ cycles = 0
  /\ calibrated = FALSE
  /\ stale = FALSE
  /\ NoCall

\* ------------------------------------------------- initialize_bus_pirate

\* ser.close(); return None
Fail(e) ==
  /\ ser_open' = FALSE
  /\ init_result' = "None"
  /\ err' = e
  /\ pc' = "init_ret"

\* open_serial_connection(): the port opens (and is flushed) or it does not;
\* the bridge may print before initialize_bus_pirate starts
OpenSerial ==
  /\ UNCHANGED <<sensorVars, first>>
  /\ UNCHANGED callVars
  /\ stale' = FALSE
  /\ pc = "open"
  /\ \E ok \in BOOLEAN, r \in Screens :
       IF ok
         THEN /\ ser_open' = TRUE
              /\ inbuf' = r
              /\ pc' = "init"
         ELSE /\ pc' = "exit"
              /\ UNCHANGED <<ser_open, inbuf>>
  /\ UNCHANGED <<sent, response, attempt, init_result, err, observed, shown,
                 scripted>>

\* lines 203-207: flush, first wake line
Wake ==
  /\ UNCHANGED <<sensorVars, first>>
  /\ UNCHANGED callVars
  /\ stale' = FALSE
  /\ pc = "init"
  /\ \E r \in Screens :
       /\ inbuf' = r
       /\ sent' = Append(sent, "")
  /\ response' = <<>>
  /\ attempt' = 0
  /\ pc' = "boot"
  /\ UNCHANGED <<ser_open, init_result, err, observed, shown, scripted>>

\* lines 208-210: a pass of the retry loop writes a blank line and sleeps
BootWrite ==
  /\ UNCHANGED sensorVars
  /\ UNCHANGED callVars
  /\ stale' = (inbuf # <<>>)
  /\ pc = "boot"
  /\ \E r \in Screens :
       /\ inbuf' = inbuf \o r
       /\ sent' = Append(sent, "")
  /\ pc' = "boot_read"
  /\ UNCHANGED <<ser_open, response, attempt, init_result, err, observed,
                 shown, scripted, first>>

\* lines 211-223: the pass reads what came, and the check after the loop
BootRead ==
  /\ UNCHANGED sensorVars
  /\ UNCHANGED callVars
  /\ stale' = FALSE
  /\ pc = "boot_read"
  /\ LET resp == ReadAll(inbuf)
     IN /\ inbuf' = <<>>
        /\ response' = resp
        /\ first' = resp
        /\ observed' = observed \cup (Range(resp) \cap Prompts)
        /\ IF resp # <<>>
             THEN /\ pc' = "color"
                  /\ UNCHANGED <<attempt, ser_open, init_result, err>>
             ELSE IF attempt < MaxAttempts - 1
               THEN /\ attempt' = attempt + 1
                    /\ pc' = "boot"
                    /\ UNCHANGED <<ser_open, init_result, err>>
               ELSE /\ Fail("NoResponse")
                    /\ UNCHANGED attempt
  /\ UNCHANGED <<sent, shown, scripted>>

\* lines 225-229: the color-mode banner is answered with "n"
ColorMode ==
  /\ UNCHANGED <<sensorVars, first>>
  /\ UNCHANGED callVars
  /\ stale' = FALSE
  /\ pc = "color"
  /\ IF Contains(response, VT100)
       THEN \E r \in Screens :
              LET resp == ReadAll(inbuf \o r)
              IN /\ sent' = Append(sent, "n")
                 /\ inbuf' = <<>>
                 /\ response' = resp
                 /\ observed' = observed \cup (Range(resp) \cap Prompts)
                 /\ scripted' = (scripted /\ r = Script("color"))
       ELSE UNCHANGED <<sent, inbuf, response, observed, scripted>>
  /\ pc' = "dispatch"
  /\ UNCHANGED <<ser_open, attempt, init_result, err, shown>>

\* line 231
AlreadyI2C(resp) == Contains(resp, I2C)

\* line 233
InHiZ(resp) == Contains(resp, HiZ)

\* the test of line 243 inverted
MenuShownInverted(resp) == ~Contains(resp, ModeSel)

\* line 243
MenuShown(resp) == Contains(resp, ModeSel)

\* line 271 accepting either prompt
EnteredAnyPrompt(resp) == Contains(resp, I2C) \/ Contains(resp, HiZ)

\* line 271
EnteredI2C(resp) == Contains(resp, I2C)

\* lines 231-246: already in I2C mode, or the mode menu is opened from HiZ;
\* a response with neither prompt falls through to line 277
Dispatch ==
  /\ UNCHANGED <<sensorVars, first>>
  /\ UNCHANGED callVars
  /\ stale' = FALSE
  /\ pc = "dispatch"
  /\ IF AlreadyI2C(response)
       THEN /\ pc' = "power"
            /\ UNCHANGED <<ser_open, inbuf, sent, response, init_result, err,
                           observed, scripted>>
       ELSE IF InHiZ(response)
         THEN \E r \in Screens :
                LET resp == ReadAll(r)
                IN /\ sent' = Append(sent, "m")
                   /\ inbuf' = <<>>
                   /\ response' = resp
                   /\ observed' = observed \cup (Range(resp) \cap Prompts)
                   /\ scripted' = (scripted /\ r = Script("menu"))
                   /\ IF MenuShown(resp)
                        THEN /\ pc' = "select"
                             /\ UNCHANGED <<ser_open, init_result, err>>
                        ELSE Fail("UnexpectedResponse")
         ELSE /\ pc' = "power"
              /\ UNCHANGED <<ser_open, inbuf, sent, response, init_result, err,
                             observed, scripted>>
  /\ UNCHANGED <<attempt, shown>>

\* lines 248-253: mode 5 is selected; the settings-reuse prompt is answered
SelectMode ==
  /\ UNCHANGED <<sensorVars, first>>
  /\ UNCHANGED callVars
  /\ stale' = FALSE
  /\ pc = "select"
  /\ \E r1, r2 \in Screens :
       LET resp == ReadAll(inbuf \o r1)
           ans == Contains(resp, PrevSet)
       IN /\ response' = resp
          /\ observed' = observed \cup (Range(resp) \cap Prompts)
          /\ sent' = IF ans THEN sent \o <<"5", "n">> ELSE Append(sent, "5")
          /\ inbuf' = IF ans THEN r2 ELSE <<>>
          /\ shown' = shown \cup (Range(r1) \cap SubPrompts)
                        \cup (IF ans THEN Range(r2) \cap SubPrompts ELSE {})
          /\ scripted' = (scripted /\ r1 = Script("select")
                            /\ (ans => r2 = Script("prev")))
  /\ pc' = "speed"
  /\ UNCHANGED <<ser_open, attempt, init_result, err>>

\* lines 255-258: the speed prompt is answered
SpeedPrompt ==
  /\ UNCHANGED <<sensorVars, first>>
  /\ UNCHANGED callVars
  /\ stale' = FALSE
  /\ pc = "speed"
  /\ \E r \in Screens :
       LET resp == ReadAll(inbuf)
           ans == Contains(resp, Speed)
       IN /\ response' = resp
          /\ observed' = observed \cup (Range(resp) \cap Prompts)
          /\ sent' = IF ans THEN Append(sent, "400") ELSE sent
          /\ inbuf' = IF ans THEN r ELSE <<>>
          /\ shown' = shown \cup (IF ans THEN Range(r) \cap SubPrompts ELSE {})
          /\ scripted' = (scripted /\ (ans => r = Script("speed")))
  /\ pc' = "clock"
  /\ UNCHANGED <<ser_open, attempt, init_result, err>>

\* lines 260-263: the clock-stretch prompt is answered
ClockPrompt ==
  /\ UNCHANGED <<sensorVars, first>>
  /\ UNCHANGED callVars
  /\ stale' = FALSE
  /\ pc = "clock"
  /\ \E r \in Screens :
       LET resp == ReadAll(inbuf)
           ans == Contains(resp, Clock)
       IN /\ response' = resp
          /\ observed' = observed \cup (Range(resp) \cap Prompts)
          /\ sent' = IF ans THEN Append(sent, "1") ELSE sent
          /\ inbuf' = IF ans THEN r ELSE <<>>
          /\ shown' = shown \cup (IF ans THEN Range(r) \cap SubPrompts ELSE {})
          /\ scripted' = (scripted /\ (ans => r = Script("clock")))
  /\ pc' = "verify"
  /\ UNCHANGED <<ser_open, attempt, init_result, err>>

\* lines 265-275: flush, blank line, the bus-ready prompt is required
VerifyMode ==
  /\ UNCHANGED <<sensorVars, first>>
  /\ UNCHANGED callVars
  /\ stale' = FALSE
  /\ pc = "verify"
  /\ \E r \in Screens :
       LET resp == ReadAll(r)
       IN /\ sent' = Append(sent, "")
          /\ inbuf' = <<>>
          /\ response' = resp
          /\ observed' = observed \cup (Range(resp) \cap Prompts)
          /\ scripted' = (scripted /\ r = Script("verify"))
          /\ IF EnteredI2C(resp)
               THEN /\ pc' = "power"
                    /\ UNCHANGED <<ser_open, init_result, err>>
               ELSE Fail("ModeEntryFailed")
  /\ UNCHANGED <<attempt, shown>>

\* lines 277-284: the power command; the voltage prompt is answered
PowerOn ==
  /\ UNCHANGED <<sensorVars, first>>
  /\ UNCHANGED callVars
  /\ stale' = FALSE
  /\ pc = "power"
  /\ \E r1, r2 \in Screens :
       LET resp == ReadAll(inbuf \o r1)
           ans == Contains(resp, Volts)
       IN /\ response' = resp
          /\ observed' = observed \cup (Range(resp) \cap Prompts)
          /\ sent' = IF ans THEN sent \o <<"W", "3.30">> ELSE Append(sent, "W")
          /\ inbuf' = IF ans THEN r2 ELSE <<>>
          /\ scripted' = (scripted /\ r1 = Script("power")
                            /\ (ans => r2 = Script("volts")))
  /\ pc' = "current"
  /\ UNCHANGED <<ser_open, attempt, init_result, err, shown>>

\* lines 285-288: the current-limit prompt is answered with a blank line
CurrentPrompt ==
  /\ UNCHANGED <<sensorVars, first>>
  /\ UNCHANGED callVars
  /\ stale' = FALSE
  /\ pc = "current"
  /\ \E r \in Screens :
       LET resp == ReadAll(inbuf)
           ans == Contains(resp, MaxCur)
       IN /\ response' = resp
          /\ observed' = observed \cup (Range(resp) \cap Prompts)
          /\ sent' = IF ans THEN Append(sent, "") ELSE sent
          /\ inbuf' = IF ans THEN r ELSE <<>>
          /\ scripted' = (scripted /\ (ans => r = Script("current")))
  /\ pc' = "confirm"
  /\ UNCHANGED <<ser_open, attempt, init_result, err, shown>>

\* lines 289-293 with a missing confirmation treated as a failure
PowerConfirmStrict ==
  /\ UNCHANGED <<sensorVars, first>>
  /\ UNCHANGED callVars
  /\ stale' = FALSE
  /\ pc = "confirm"
  /\ LET resp == ReadAll(inbuf)
     IN /\ response' = resp
        /\ observed' = observed \cup (Range(resp) \cap Prompts)
        /\ IF Contains(resp, PowerEn)
             THEN /\ init_result' = "ser"
                  /\ pc' = "init_ret"
                  /\ UNCHANGED <<ser_open, err>>
             ELSE Fail("PowerNotEnabled")
  /\ inbuf' = <<>>
  /\ UNCHANGED <<sent, attempt, shown, scripted>>

\* lines 289-293: a missing confirmation is only warned about; return ser
PowerConfirm ==
  /\ UNCHANGED <<sensorVars, first>>
  /\ UNCHANGED callVars
  /\ stale' = FALSE
  /\ pc = "confirm"
  /\ LET resp == ReadAll(inbuf)
     IN /\ response' = resp
        /\ observed' = observed \cup (Range(resp) \cap Prompts)
  /\ inbuf' = <<>>
  /\ init_result' = "ser"
  /\ pc' = "init_ret"
  /\ UNCHANGED <<ser_open, sent, attempt, err, shown, scripted>>

Negotiate ==
  \/ Wake
  \/ BootWrite
  \/ BootRead
  \/ ColorMode
  \/ Dispatch
  \/ SelectMode
  \/ SpeedPrompt
  \/ ClockPrompt
  \/ VerifyMode
  \/ PowerOn
  \/ CurrentPrompt
  \/ PowerConfirm

\* ---------------------------------------------------------------- sensor

DEBUG == FALSE

\* What send_command may return for a bus command: the echo and the prompt,
\* with or without a response field of n hex tokens.
SampleByte(p, i) == Hex(<<(p + 5 * i) % 16, (3 * p + 7 * i) % 16>>)

RxReply(p, n) ==
  IF n = 0 THEN <<Echo, Junk, I2C>>
  ELSE <<Echo, RX>> \o [i \in 1..n |-> SampleByte(p, i)] \o <<I2C>>

BusReplies == {RxReply(p, n) : p \in 1..MaxPatterns, n \in 0..MaxRxLen}

\* read_sensor_data (lines 129-148) on the response to the 8-byte read
SensorResult(raw) ==
  LET extracted_data == extract_rx_data(raw)
      sensor_bytes == Ints(Take(extracted_data.v, 8))
  IN IF extracted_data = None THEN NoInt
     ELSE IF Len(sensor_bytes) < 6 THEN Result("IndexError", 0)
     ELSE Result("ok",
            Shr(BitOr(BitOr(Shl(sensor_bytes[4], 16), Shl(sensor_bytes[5], 8)),
                      sensor_bytes[6]), 4))

\* read_calibration_data (line 163): the read is refused
CalibrationShort(extracted_data) ==
  extracted_data = None \/ Len(extracted_data.v) < 6

\* the compensation without its second-order term
CompensateFirstOrder(adc, t1, t2, t3) ==
  Shr(MulShr(Shr(adc, 3) - Shl(t1, 1), t2, 11) * 5 + 128, 8)

\* lines 191-194
Compensate(adc, t1, t2, t3) ==
  LET var1 == MulShr(Shr(adc, 3) - Shl(t1, 1), t2, 11)
      var2 == MulShr(MulShr(Shr(adc, 4) - t1, Shr(adc, 4) - t1, 12), t3, 14)
      t_fine == var1 + var2
  IN Shr(t_fine * 5 + 128, 8)

\* configure_bme280 (lines 110-118): the read-back is only printed in DEBUG
ConfigureRaises(r) == DEBUG /\ extract_rx_data(r) = None

\* line 350 testing only that initialize_bus_pirate has returned
InitReturned == init_result # "pending"

\* line 350: if initialize_bus_pirate(ser)
InitSucceeded == init_result = "ser"

\* main, lines 350-355 and 370-374; initialize_bus_pirate's locals are gone
MainStart ==
  /\ UNCHANGED <<first, stale>>
  /\ UNCHANGED callVars
  /\ pc = "init_ret"
  /\ IF InitSucceeded
       THEN /\ sent' = Append(sent, "scan")
            /\ pc' = "chip"
            /\ UNCHANGED ser_open
       ELSE /\ ser_open' = FALSE
            /\ pc' = "exit"
            /\ UNCHANGED sent
  /\ response' = <<>>
  /\ attempt' = 0
  /\ UNCHANGED <<inbuf, init_result, err, observed, shown, scripted,
                 sensorVars>>

\* get_chip_id, lines 92-108
GetChipId ==
  /\ UNCHANGED <<first, stale>>
  /\ UNCHANGED callVars
  /\ pc = "chip"
  /\ \E r \in BusReplies :
       LET id == extract_rx_data(r)
       IN chip_id' = IF id = None THEN None ELSE Result("ok", id.v[1])
  /\ sent' = sent \o <<"[0xEE 0xD0]", "[0xEFr:1]">>
  /\ pc' = "configure"
  /\ UNCHANGED <<ser_open, inbuf, response, attempt, init_result, err, observed,
                 shown, scripted, raw_sensor_data, adc_T, raw_calib_data,
                 dig_T1, dig_T2, dig_T3, temperature, cycles, calibrated>>

\* main line 357: configure_bme280
Configure ==
  /\ UNCHANGED <<first, stale>>
  /\ UNCHANGED callVars
  /\ pc = "configure"
  /\ \E r \in BusReplies :
       pc' = IF ConfigureRaises(r) THEN "crashed" ELSE "sample"
  /\ sent' = sent \o <<"[0xEE 0xF4 0x55]", "[0xEFr:1]">>
  /\ UNCHANGED <<ser_open, inbuf, response, attempt, init_result, err, observed,
                 shown, scripted, sensorVars>>

\* main lines 358-363: read_sensor_data
ReadSensor ==
  /\ UNCHANGED <<first, stale>>
  /\ UNCHANGED callVars
  /\ pc = "sample"
  /\ \E r \in BusReplies :
       /\ raw_sensor_data' = r
       /\ adc_T' = SensorResult(r)
       /\ pc' = IF SensorResult(r).st = "IndexError" THEN "crashed"
                ELSE "calibrate"
  /\ sent' = sent \o <<"[0xEE 0xF7]", "[0xEFr:8]">>
  /\ UNCHANGED <<ser_open, inbuf, response, attempt, init_result, err, observed,
                 shown, scripted, chip_id, raw_calib_data, dig_T1, dig_T2,
                 dig_T3, temperature, cycles, calibrated>>

\* read_calibration_data with main entering its loop whatever it returned
ReadCalibrationEntersLoop ==
  /\ UNCHANGED <<first, stale>>
  /\ UNCHANGED callVars
  /\ pc = "calibrate"
  /\ \E r \in BusReplies :
       LET extracted_data == extract_rx_data(r)
           calib_data_bytes == Ints(Take(extracted_data.v, 6))
       IN /\ raw_calib_data' = r
          /\ IF CalibrationShort(extracted_data)
              THEN /\ pc' = "loop"
                   /\ UNCHANGED <<ser_open, dig_T1, dig_T2, dig_T3, calibrated>>
              ELSE /\ dig_T1' = BitOr(Shl(calib_data_bytes[2], 8),
                                      calib_data_bytes[1])
                   /\ dig_T2' = BitOr(Shl(calib_data_bytes[4], 8),
                                      calib_data_bytes[3])
                   /\ dig_T3' = BitOr(Shl(calib_data_bytes[6], 8),
                                      calib_data_bytes[5])
                   /\ calibrated' = TRUE
                   /\ pc' = "loop"
                   /\ UNCHANGED ser_open
  /\ sent' = sent \o <<"[0xEE 0x88]", "[0xEFr:6]">>
  /\ UNCHANGED <<inbuf, response, attempt, init_result, err, observed, shown,
                 scripted, chip_id, raw_sensor_data, adc_T, temperature, cycles>>

\* read_calibration_data (lines 150-180) and main lines 364, 368-374
ReadCalibration ==
  /\ UNCHANGED <<first, stale>>
  /\ UNCHANGED callVars
  /\ pc = "calibrate"
  /\ \E r \in BusReplies :
       LET extracted_data == extract_rx_data(r)
           calib_data_bytes == Ints(Take(extracted_data.v, 6))
       IN /\ raw_calib_data' = r
          /\ IF CalibrationShort(extracted_data)
              THEN /\ ser_open' = FALSE
                   /\ pc' = "exit"
                   /\ UNCHANGED <<dig_T1, dig_T2, dig_T3, calibrated>>
              ELSE /\ dig_T1' = BitOr(Shl(calib_data_bytes[2], 8),
                                      calib_data_bytes[1])
                   /\ dig_T2' = BitOr(Shl(calib_data_bytes[4], 8),
                                      calib_data_bytes[3])
                   /\ dig_T3' = BitOr(Shl(calib_data_bytes[6], 8),
                                      calib_data_bytes[5])
                   /\ calibrated' = TRUE
                   /\ pc' = "loop"
                   /\ UNCHANGED ser_open
  /\ sent' = sent \o <<"[0xEE 0x88]", "[0xEFr:6]">>
  /\ UNCHANGED <<inbuf, response, attempt, init_result, err, observed, shown,
                 scripted, chip_id, raw_sensor_data, adc_T, temperature, cycles>>

\* main's loop (lines 365-366) calls read_temperature: line 185
LoopConfigure ==
  /\ UNCHANGED <<first, stale>>
  /\ UNCHANGED callVars
  /\ pc = "loop"
  /\ cycles < MaxCycles
  /\ \E r \in BusReplies :
       pc' = IF ConfigureRaises(r) THEN "crashed" ELSE "measure"
  /\ sent' = sent \o <<"[0xEE 0xF4 0x55]", "[0xEFr:1]">>
  /\ UNCHANGED <<ser_open, inbuf, response, attempt, init_result, err, observed,
                 shown, scripted, sensorVars>>

\* read_temperature, lines 186-198, and back to the loop (line 367)
ReadTemperature ==
  /\ UNCHANGED <<first, stale>>
  /\ UNCHANGED callVars
  /\ pc = "measure"
  /\ \E r \in BusReplies :
       LET adc == SensorResult(r)
       IN /\ raw_sensor_data' = r
          /\ adc_T' = adc
          /\ pc' = IF adc.st = "IndexError" THEN "crashed" ELSE "loop"
          /\ temperature' =
               IF adc.st = "ok"
                 THEN Result("ok", Compensate(adc.v, dig_T1, dig_T2, dig_T3))
                 ELSE NoInt
  /\ sent' = sent \o <<"[0xEE 0xF7]", "[0xEFr:8]">>
  /\ cycles' = cycles + 1
  /\ UNCHANGED <<ser_open, inbuf, response, attempt, init_result, err, observed,
                 shown, scripted, chip_id, raw_calib_data, dig_T1, dig_T2,
                 dig_T3, calibrated>>

\* The rest of main() once initialize_bus_pirate has returned.
Sensor ==
  \/ MainStart
  \/ GetChipId
  \/ Configure
  \/ ReadSensor
  \/ ReadCalibration
  \/ LoopConfigure
  \/ ReadTemperature

\* --------------------------------------------------------- specifications

\* main() from its start until initialize_bus_pirate has returned and main has
\* acted on its result (the scan command, or the close).
Init == InitMain

Next == OpenSerial \/ Negotiate \/ MainStart

Spec == Init /\ [][Next]_vars

\* The command lines of a negotiation in which the bridge shows the HiZ
\* prompt first and then every screen of Script, or the I2C prompt first.
NegotiatedLogs ==
  { <<"", "", "m", "5", "n", "400", "1", "", "W", "3.30", "">>,
    <<"", "", "W", "3.30", "">> }

\* main() from the return of a successful initialize_bus_pirate on.
InitSensor ==
  /\ pc = "init_ret"
  /\ ser_open = TRUE
  /\ inbuf = <<>>
  /\ sent \in NegotiatedLogs
  /\ response = <<PowerEn, I2C>>
  /\ attempt = 0
  /\ init_result = "ser"
  /\ err = "none"
  /\ observed = IF Len(sent) > 5 THEN {HiZ, I2C} ELSE {I2C}
  /\ shown = IF Len(sent) > 5 THEN SubPrompts ELSE {}
  /\ scripted = TRUE
  /\ first = IF Len(sent) > 5 THEN <<HiZ, HiZ>> ELSE <<I2C, I2C>>
  /\ chip_id = None
  /\ raw_sensor_data = <<>>
  /\ adc_T = NoInt
  /\ raw_calib_data = <<>>
  /\ dig_T1 = 0
  /\ dig_T2 = 0
  /\ dig_T3 = 0
  /\ temperature = NoInt
  /\ cycles = 0
  /\ calibrated = FALSE
  /\ stale = FALSE
  /\ NoCall

SpecSensor == InitSensor /\ [][Sensor]_vars

\* InitSensor's states are states of Spec.
ReachesInitSensor == ~InitSensor

\* ----------------------------------------- the sensor functions, any order

\* What send_command returns to a function called directly: no field, a
\* field too short for either read, 6 bytes, 8 bytes.
ApiReplies == {RxReply(p, n) : p \in 1..MaxPatterns, n \in {0, 5, 6, 8}}

MaxCalls == 3

\* a function may still be called
CanCall == pc = "api" /\ Len(sent) < 2 * MaxCalls

\* A negotiated session on which nothing has been read yet.
InitApi ==
  /\ pc = "api"
  /\ ser_open = TRUE
  /\ inbuf = <<>>
  /\ sent = <<>>
  /\ response = <<>>
  /\ attempt = 0
  /\ init_result = "ser"
  /\ err = "none"
  /\ observed = {I2C}
  /\ shown = {}
  /\ scripted = TRUE
  /\ first = <<I2C>>
  /\ chip_id = None
  /\ raw_sensor_data = <<>>
  /\ adc_T = NoInt
  /\ raw_calib_data = <<>>
  /\ dig_T1 = 0
  /\ dig_T2 = 0
  /\ dig_T3 = 0
  /\ temperature = NoInt
  /\ cycles = 0
  /\ calibrated = FALSE
  /\ stale = FALSE
  /\ NoCall

\* get_chip_id(ser), lines 92-108
CallGetChipId ==
  /\ CanCall
  /\ \E r \in ApiReplies :
       LET id == extract_rx_data(r)
       IN chip_id' = IF id = None THEN None ELSE Result("ok", id.v[1])
  /\ sent' = sent \o <<"[0xEE 0xD0]", "[0xEFr:1]">>
  /\ UNCHANGED <<pc, ser_open, inbuf, response, attempt, init_result, err,
                 observed, shown, scripted, first, raw_sensor_data, adc_T,
                 raw_calib_data, dig_T1, dig_T2, dig_T3, temperature, cycles,
                 calibrated, callVars, stale>>

\* configure_bme280(ser), lines 110-118
CallConfigure ==
  /\ CanCall
  /\ \E r \in ApiReplies :
       pc' = IF ConfigureRaises(r) THEN "crashed" ELSE pc
  /\ sent' = sent \o <<"[0xEE 0xF4 0x55]", "[0xEFr:1]">>
  /\ UNCHANGED <<ser_open, inbuf, response, attempt, init_result, err,
                 observed, shown, scripted, first, sensorVars, callVars, stale>>

\* read_sensor_data(ser), lines 120-148
CallReadSensor ==
  /\ CanCall
  /\ \E r \in ApiReplies :
       /\ raw_sensor_data' = r
       /\ adc_T' = SensorResult(r)
       /\ pc' = IF SensorResult(r).st = "IndexError" THEN "crashed" ELSE pc
  /\ sent' = sent \o <<"[0xEE 0xF7]", "[0xEFr:8]">>
  /\ UNCHANGED <<ser_open, inbuf, response, attempt, init_result, err,
                 observed, shown, scripted, first, chip_id, raw_calib_data,
                 dig_T1, dig_T2, dig_T3, temperature, cycles, calibrated,
                 callVars, stale>>

\* read_calibration_data(ser) with the constants cleared by a refused read
CallReadCalibrationClears ==
  /\ CanCall
  /\ \E r \in ApiReplies :
       LET extracted_data == extract_rx_data(r)
           calib_data_bytes == Ints(Take(extracted_data.v, 6))
       IN /\ raw_calib_data' = r
          /\ IF CalibrationShort(extracted_data)
               THEN /\ dig_T1' = 0
                    /\ dig_T2' = 0
                    /\ dig_T3' = 0
                    /\ UNCHANGED calibrated
               ELSE /\ dig_T1' = BitOr(Shl(calib_data_bytes[2], 8),
                                       calib_data_bytes[1])
                    /\ dig_T2' = BitOr(Shl(calib_data_bytes[4], 8),
                                       calib_data_bytes[3])
                    /\ dig_T3' = BitOr(Shl(calib_data_bytes[6], 8),
                                       calib_data_bytes[5])
                    /\ calibrated' = TRUE
  /\ sent' = sent \o <<"[0xEE 0x88]", "[0xEFr:6]">>
  /\ UNCHANGED <<pc, ser_open, inbuf, response, attempt, init_result, err,
                 observed, shown, scripted, first, chip_id, raw_sensor_data,
                 adc_T, temperature, cycles, callVars, stale>>

\* read_calibration_data(ser), lines 150-180
CallReadCalibration ==
  /\ CanCall
  /\ \E r \in ApiReplies :
       LET extracted_data == extract_rx_data(r)
           calib_data_bytes == Ints(Take(extracted_data.v, 6))
       IN /\ raw_calib_data' = r
          /\ IF CalibrationShort(extracted_data)
               THEN UNCHANGED <<dig_T1, dig_T2, dig_T3, calibrated>>
               ELSE /\ dig_T1' = BitOr(Shl(calib_data_bytes[2], 8),
                                       calib_data_bytes[1])
                    /\ dig_T2' = BitOr(Shl(calib_data_bytes[4], 8),
                                       calib_data_bytes[3])
                    /\ dig_T3' = BitOr(Shl(calib_data_bytes[6], 8),
                                       calib_data_bytes[5])
                    /\ calibrated' = TRUE
  /\ sent' = sent \o <<"[0xEE 0x88]", "[0xEFr:6]">>
  /\ UNCHANGED <<pc, ser_open, inbuf, response, attempt, init_result, err,
                 observed, shown, scripted, first, chip_id, raw_sensor_data,
                 adc_T, temperature, cycles, callVars, stale>>

\* read_temperature(ser), lines 182-198: configure_bme280, read_sensor_data,
\* then the compensation
CallReadTemperature ==
  /\ CanCall
  /\ \E c \in ApiReplies, r \in ApiReplies :
       LET adc == SensorResult(r)
       IN /\ raw_sensor_data' = r
          /\ adc_T' = adc
          /\ pc' = IF ConfigureRaises(c) \/ adc.st = "IndexError"
                     THEN "crashed" ELSE pc
          /\ temperature' =
               IF adc.st = "ok"
                 THEN Result("ok", Compensate(adc.v, dig_T1, dig_T2, dig_T3))
                 ELSE NoInt
  /\ sent' = sent \o <<"[0xEE 0xF4 0x55]", "[0xEFr:1]", "[0xEE 0xF7]",
                       "[0xEFr:8]">>
  /\ UNCHANGED <<ser_open, inbuf, response, attempt, init_result, err,
                 observed, shown, scripted, first, chip_id, raw_calib_data,
                 dig_T1, dig_T2, dig_T3, cycles, calibrated, callVars, stale>>

NextApi ==
  \/ CallGetChipId
  \/ CallConfigure
  \/ CallReadSensor
  \/ CallReadCalibration
  \/ CallReadTemperature

\* The sensor functions called on a negotiated session, in any order.
SpecApi == InitApi /\ [][NextApi]_vars

\* ------------------------------------------ read_temperature, lines 191-198

\* Raw ADC values (20 bits) and values of the three constants.
AdcValues == {0, 391791, 415148, 500000, 519888, 1048575}
T1Values == {0, 27504, 28485, 65535}
T2Values == {0, 26435, 26735, 65535}
T3Values == {-1000, 0, 50, 64536}

\* read_temperature has its ADC value (line 186) and the constants are set.
InitTemp ==
  /\ pc = "compensate"
  /\ ser_open = TRUE
  /\ inbuf = <<>>
  /\ sent = <<>>
  /\ response = <<>>
  /\ attempt = 0
  /\ init_result = "ser"
  /\ err = "none"
  /\ observed = {I2C}
  /\ shown = {}
  /\ scripted = TRUE
  /\ first = <<I2C>>
  /\ chip_id = None
  /\ raw_sensor_data = <<>>
  /\ adc_T \in {Result("ok", a) : a \in AdcValues}
  /\ raw_calib_data = <<>>
  /\ dig_T1 \in T1Values
  /\ dig_T2 \in T2Values
  /\ dig_T3 \in T3Values
  /\ temperature = NoInt
  /\ cycles = 0
  /\ calibrated = TRUE
  /\ stale = FALSE
  /\ NoCall

\* lines 191-198
Compensation ==
  /\ pc = "compensate"
  /\ temperature' = Result("ok", Compensate(adc_T.v, dig_T1, dig_T2, dig_T3))
  /\ pc' = "api"
  /\ UNCHANGED <<ser_open, inbuf, sent, response, attempt, init_result, err,
                 observed, shown, scripted, first, chip_id, raw_sensor_data,
                 adc_T, raw_calib_data, dig_T1, dig_T2, dig_T3, cycles,
                 calibrated, callVars, stale>>

SpecTemp == InitTemp /\ [][Compensation]_vars

\* ----------------------------------------- read_until_prompt, send_command

\* Times are in milliseconds.  The only steps that take time are the sleeps,
\* and bytes arrive while the program sleeps.

\* read_until_prompt's timeout=3 (line 27) and send_command's 3 (line 50)
Timeout == 3000
\* time.sleep(0.1), line 39
PollRead == 100
\* time.sleep(0.05), line 63
PollSend == 50
\* send_command's delay: 1 by default, 0.1 in i2c_write, 0.2 in i2c_read
Delays == {100, 200, 1000}

Volt == W("3.3V")
GND == W("GND")

\* What the byte source may deliver during one sleep: nothing, blanks,
\* voltage telemetry, GND noise (also around a prompt), text, a prompt.
Chunks ==
  {<<>>, <<WS>>, <<Volt>>, <<GND>>, <<GND, I2C>>, <<Junk>>, <<HiZ>>, <<I2C>>}

HasPrompt(chunk) == Contains(chunk, I2C) \/ Contains(chunk, HiZ)

\* re.match(r'^\s*(\d+\.\d+V\s*)+$', new_data)
VoltageOnly(new_data) ==
  /\ Contains(new_data, Volt)
  /\ \A i \in DOMAIN new_data : new_data[i] \in {Volt, WS}

\* line 56: voltage readings and interactive noise
IsNoise(new_data) == VoltageOnly(new_data) \/ Contains(new_data, GND)

\* re.search(r"(I2C>|HiZ>)", new_data), line 37
PromptFound(new_data) == HasPrompt(new_data)

\* "I2C>" in new_data, line 61
TerminatorFound(new_data) == Contains(new_data, I2C)

\* response.append(new_data), as "\n".join(response) will show it
Appended(resp, new_data) ==
  IF resp = <<>> THEN new_data ELSE resp \o <<WS>> \o new_data

\* f's loop appends the chunk to its response and goes on
Kept(f, chunk) ==
  /\ ReadAll(chunk) # <<>>
  /\ IF f = "send_command"
       THEN ~IsNoise(chunk) /\ ~TerminatorFound(chunk)
       ELSE ~PromptFound(chunk)

\* The chunks that may arrive while f's response is resp: at most MaxChunks
\* chunks are delivered that f keeps; chunks it drops or ends on are not
\* limited.
MaxChunks == 2
Arrivals(f, resp) ==
  {c \in Chunks : Kept(f, c) => Len(resp) < 2 * MaxChunks - 1}

\* What arrives during one sleep: any of Arrivals from a free source, the
\* next chunk of stream (nothing once it is used up) from a scripted one.
Delivered(f, resp) ==
  IF source = "free" THEN Arrivals(f, resp)
  ELSE {IF arrived < Len(stream) THEN stream[arrived + 1] ELSE <<>>}

Rest == IF arrived < Len(stream) THEN arrived + 1 ELSE arrived

\* the loop test with the deadline moved past one more poll
RunningPastDeadline(t, deadline) == t <= deadline + PollSend

\* while time.time() < timeout_time (lines 32, 52)
Running(t, deadline) == t < deadline

\* the variables of main() that the two calls do not touch
mainVars ==
  <<ser_open, attempt, init_result, err, observed, shown, scripted, first,
    sensorVars, rx_result, source, stream, stale>>

\* A call starts at time 0 on an open port, with or without pending input.
InitIO ==
  /\ pc = "io_call"
  /\ ser_open = TRUE
  /\ sent = <<>>
  /\ response = <<>>
  /\ attempt = 0
  /\ init_result = "ser"
  /\ err = "none"
  /\ observed = {}
  /\ shown = {}
  /\ scripted = TRUE
  /\ first = <<>>
  /\ chip_id = None
  /\ raw_sensor_data = <<>>
  /\ adc_T = NoInt
  /\ raw_calib_data = <<>>
  /\ dig_T1 = 0
  /\ dig_T2 = 0
  /\ dig_T3 = 0
  /\ temperature = NoInt
  /\ cycles = 0
  /\ calibrated = FALSE
  /\ stale = FALSE
  /\ fn \in {"read_until_prompt", "send_command"}
  /\ delay \in (IF fn = "send_command" THEN Delays ELSE {0})
  /\ inbuf \in Arrivals(fn, <<>>)
  /\ now = 0
  /\ timeout_time = 0
  /\ outcome = "none"
  /\ prompted = HasPrompt(inbuf)
  /\ every_poll = TRUE
  /\ rx_result = None
  /\ source = "free"
  /\ stream = <<>>
  /\ arrived = 0

\* lines 29-30
ReadUntilPromptCall ==
  /\ pc = "io_call"
  /\ fn = "read_until_prompt"
  /\ response' = <<>>
  /\ timeout_time' = now + Timeout
  /\ pc' = "io_loop"
  /\ UNCHANGED <<inbuf, sent, delay, fn, now, outcome, prompted, every_poll,
                 arrived>>
  /\ UNCHANGED mainVars

\* lines 32-39 up to the sleep, and lines 41 when the loop has ended
ReadUntilPromptPoll ==
  /\ pc = "io_loop"
  /\ fn = "read_until_prompt"
  /\ IF ~Running(now, timeout_time)
       THEN /\ outcome' = "timeout"
            /\ pc' = "io_ret"
            /\ UNCHANGED <<inbuf, response>>
       ELSE IF inbuf = <<>>
         THEN /\ pc' = "io_sleep"
              /\ UNCHANGED <<inbuf, response, outcome>>
         ELSE LET new_data == ReadAll(inbuf)
              IN /\ inbuf' = <<>>
                 /\ IF new_data = <<>>
                      THEN /\ pc' = "io_sleep"
                           /\ UNCHANGED <<response, outcome>>
                      ELSE /\ response' = Appended(response, new_data)
                           /\ IF PromptFound(new_data)
                                THEN outcome' = "prompt" /\ pc' = "io_ret"
                                ELSE pc' = "io_sleep" /\ UNCHANGED outcome
  /\ UNCHANGED <<sent, delay, fn, now, timeout_time, prompted, every_poll,
                 arrived>>
  /\ UNCHANGED mainVars

\* line 39: time.sleep(0.1)
ReadUntilPromptSleep ==
  /\ pc = "io_sleep"
  /\ fn = "read_until_prompt"
  /\ now' = now + PollRead
  /\ \E chunk \in Delivered(fn, response) :
       /\ inbuf' = inbuf \o chunk
       /\ prompted' = (prompted \/ HasPrompt(chunk))
       /\ every_poll' = (every_poll /\ chunk # <<>>)
  /\ arrived' = Rest
  /\ pc' = "io_loop"
  /\ UNCHANGED <<sent, response, delay, fn, timeout_time, outcome>>
  /\ UNCHANGED mainVars

\* lines 45-50: flush, write, sleep(delay), then the deadline is set
SendCommandCall ==
  /\ pc = "io_call"
  /\ fn = "send_command"
  /\ sent' = Append(sent, "[0xEFr:1]")
  /\ now' = now + delay
  /\ \E chunk \in Delivered(fn, <<>>) :
       /\ inbuf' = chunk
       /\ prompted' = HasPrompt(chunk)
       /\ every_poll' = (chunk # <<>>)
  /\ response' = <<>>
  /\ timeout_time' = now' + Timeout
  /\ arrived' = Rest
  /\ pc' = "io_loop"
  /\ UNCHANGED <<delay, fn, outcome>>
  /\ UNCHANGED mainVars

\* lines 52-63 up to the sleep, and lines 65-68 when the loop has ended
SendCommandPoll ==
  /\ pc = "io_loop"
  /\ fn = "send_command"
  /\ IF ~Running(now, timeout_time)
       THEN /\ outcome' = "timeout"
            /\ pc' = "io_ret"
            /\ UNCHANGED <<inbuf, response>>
       ELSE IF inbuf = <<>>
         THEN /\ pc' = "io_sleep"
              /\ UNCHANGED <<inbuf, response, outcome>>
         ELSE LET new_data == ReadAll(inbuf)
              IN /\ inbuf' = <<>>
                 /\ IF new_data = <<>>
                      THEN /\ pc' = "io_sleep"
                           /\ UNCHANGED <<response, outcome>>
                      ELSE IF IsNoise(new_data)
                        THEN \* continue: back to the loop test, no sleep
                             /\ pc' = "io_loop"
                             /\ UNCHANGED <<response, outcome>>
                        ELSE /\ response' = Appended(response, new_data)
                             /\ IF TerminatorFound(new_data)
                                  THEN outcome' = "prompt" /\ pc' = "io_ret"
                                  ELSE pc' = "io_sleep" /\ UNCHANGED outcome
  /\ UNCHANGED <<sent, delay, fn, now, timeout_time, prompted, every_poll,
                 arrived>>
  /\ UNCHANGED mainVars

\* line 63: time.sleep(0.05)
SendCommandSleep ==
  /\ pc = "io_sleep"
  /\ fn = "send_command"
  /\ now' = now + PollSend
  /\ \E chunk \in Delivered(fn, response) :
       /\ inbuf' = inbuf \o chunk
       /\ prompted' = (prompted \/ HasPrompt(chunk))
       /\ every_poll' = (every_poll /\ chunk # <<>>)
  /\ arrived' = Rest
  /\ pc' = "io_loop"
  /\ UNCHANGED <<sent, response, delay, fn, timeout_time, outcome>>
  /\ UNCHANGED mainVars

NextIO ==
  \/ ReadUntilPromptCall
  \/ ReadUntilPromptPoll
  \/ ReadUntilPromptSleep
  \/ SendCommandCall
  \/ SendCommandPoll
  \/ SendCommandSleep

\* One call of either function.  The program keeps running: a step that is
\* enabled is eventually taken.
SpecIO == InitIO /\ [][NextIO]_vars /\ WF_vars(NextIO)

\* --------------------------------------------------------- extract_rx_data

\* The tokens of a response text: the field marker, two hex bytes, other
\* words ("ACK", "NACK", menu text), whitespace, a control sequence and the
\* echo of the read command.
RxTokens == {RX, Hex(<<6, 0>>), Hex(<<7, 7>>), Junk, WS, Esc, Echo}

MaxTextLen == 4

RECURSIVE Texts(_)
Texts(n) ==
  IF n = 0 THEN {<<>>}
  ELSE Texts(n - 1)
         \cup {Append(t, tok) : t \in {u \in Texts(n - 1) : Len(u) = n - 1},
                                tok \in RxTokens}

\* extract_rx_data is about to be called on some response text.
InitRx ==
  /\ pc = "rx_call"
  /\ ser_open = TRUE
  /\ inbuf = <<>>
  /\ sent = <<>>
  /\ response \in Texts(MaxTextLen)
  /\ attempt = 0
  /\ init_result = "ser"
  /\ err = "none"
  /\ observed = {}
  /\ shown = {}
  /\ scripted = TRUE
  /\ first = <<>>
  /\ chip_id = None
  /\ raw_sensor_data = <<>>
  /\ adc_T = NoInt
  /\ raw_calib_data = <<>>
  /\ dig_T1 = 0
  /\ dig_T2 = 0
  /\ dig_T3 = 0
  /\ temperature = NoInt
  /\ cycles = 0
  /\ calibrated = FALSE
  /\ stale = FALSE
  /\ NoCall

\* lines 70-90
ExtractRxData ==
  /\ pc = "rx_call"
  /\ rx_result' = extract_rx_data(response)
  /\ pc' = "rx_ret"
  /\ UNCHANGED <<ser_open, inbuf, sent, response, attempt, init_result, err,
                 observed, shown, scripted, first, sensorVars>>
  /\ UNCHANGED <<fn, delay, now, timeout_time, outcome, prompted, every_poll,
                 source, stream, arrived, stale>>

SpecRx == InitRx /\ [][ExtractRxData]_vars

\* ------------------------------------------- send_command on a noisy reply

\* The reply to a read command without noise: the field and the prompt.
CleanReply == <<RX, Hex(<<6, 0>>), Hex(<<7, 7>>), I2C>>

\* voltage telemetry, GND markers and control sequences
NoiseTokens == {Volt, GND, Esc}

Insert(text, i, tok) ==
  SubSeq(text, 1, i) \o <<tok>> \o SubSeq(text, i + 1, Len(text))

\* CleanReply with at most n noise tokens put in, anywhere
RECURSIVE Noisy(_)
Noisy(n) ==
  IF n = 0 THEN {CleanReply}
  ELSE Noisy(n - 1)
         \cup UNION {{Insert(t, i, tok) : i \in 0..Len(t), tok \in NoiseTokens} :
                     t \in Noisy(n - 1)}

\* every way of cutting a text into the chunks that successive reads return
RECURSIVE Chunkings(_)
Chunkings(text) ==
  IF text = <<>> THEN {<<>>}
  ELSE UNION {{<<SubSeq(text, 1, i)>> \o c :
                  c \in Chunkings(SubSeq(text, i + 1, Len(text)))} :
              i \in 1..Len(text)}

MaxNoise == 2
NoisyStreams == UNION {Chunkings(t) : t \in Noisy(MaxNoise)}

RECURSIVE Flatten(_)
Flatten(chunks) ==
  IF chunks = <<>> THEN <<>> ELSE Head(chunks) \o Flatten(Tail(chunks))

Denoise(text) == SelectSeq(text, LAMBDA t : t \notin NoiseTokens)

\* send_command is called with its default delay and the bridge's reply is one
\* of NoisyStreams.
InitNoise ==
  /\ pc = "io_call"
  /\ ser_open = TRUE
  /\ inbuf = <<>>
  /\ sent = <<>>
  /\ response = <<>>
  /\ attempt = 0
  /\ init_result = "ser"
  /\ err = "none"
  /\ observed = {}
  /\ shown = {}
  /\ scripted = TRUE
  /\ first = <<>>
  /\ chip_id = None
  /\ raw_sensor_data = <<>>
  /\ adc_T = NoInt
  /\ raw_calib_data = <<>>
  /\ dig_T1 = 0
  /\ dig_T2 = 0
  /\ dig_T3 = 0
  /\ temperature = NoInt
  /\ cycles = 0
  /\ calibrated = FALSE
  /\ stale = FALSE
  /\ fn = "send_command"
  /\ delay = 1000
  /\ now = 0
  /\ timeout_time = 0
  /\ outcome = "none"
  /\ prompted = FALSE
  /\ every_poll = TRUE
  /\ rx_result = None
  /\ source = "scripted"
  /\ stream \in NoisyStreams
  /\ arrived = 0

\* lines 97-98, 116: extract_rx_data on what send_command returned
ExtractReply ==
  /\ pc = "io_ret"
  /\ fn = "send_command"
  /\ rx_result' = extract_rx_data(response)
  /\ pc' = "rx_ret"
  /\ UNCHANGED <<ser_open, inbuf, sent, response, attempt, init_result, err,
                 observed, shown, scripted, first, sensorVars>>
  /\ UNCHANGED <<fn, delay, now, timeout_time, outcome, prompted, every_poll,
                 source, stream, arrived, stale>>

NextNoise ==
  \/ SendCommandCall
  \/ SendCommandPoll
  \/ SendCommandSleep
  \/ ExtractReply

SpecNoise == InitNoise /\ [][NextNoise]_vars

\* --------------------------------------- a prompt split between two reads

\* The two halves of each prompt marker, as two reads may return them.
I2CHead == W("I2")
I2CTail == W("C>")
HiZHead == W("Hi")
HiZTail == W("Z>")

\* What may come before the marker: nothing at all, a silent poll, text.
Preambles == {<<>>, <<<<>>>>, <<<<Junk>>>>, <<<<>>, <<Junk>>>>}

\* A marker that f ends on, split between two consecutive polls.
SplitStreams(f) ==
  {p \o <<<<I2CHead>>, <<I2CTail>>>> : p \in Preambles}
    \cup (IF f = "read_until_prompt"
            THEN {p \o <<<<HiZHead>>, <<HiZTail>>>> : p \in Preambles}
            ELSE {})

\* The same markers, each in one piece.
WholeStreams(f) ==
  {p \o <<<<I2C>>>> : p \in Preambles}
    \cup (IF f = "read_until_prompt"
            THEN {p \o <<<<HiZ>>>> : p \in Preambles}
            ELSE {})

\* A call whose byte source delivers a marker, whole or split.
InitSplit ==
  /\ pc = "io_call"
  /\ ser_open = TRUE
  /\ inbuf = <<>>
  /\ sent = <<>>
  /\ response = <<>>
  /\ attempt = 0
  /\ init_result = "ser"
  /\ err = "none"
  /\ observed = {}
  /\ shown = {}
  /\ scripted = TRUE
  /\ first = <<>>
  /\ chip_id = None
  /\ raw_sensor_data = <<>>
  /\ adc_T = NoInt
  /\ raw_calib_data = <<>>
  /\ dig_T1 = 0
  /\ dig_T2 = 0
  /\ dig_T3 = 0
  /\ temperature = NoInt
  /\ cycles = 0
  /\ calibrated = FALSE
  /\ stale = FALSE
  /\ fn \in {"read_until_prompt", "send_command"}
  /\ delay \in (IF fn = "send_command" THEN Delays ELSE {0})
  /\ now = 0
  /\ timeout_time = 0
  /\ outcome = "none"
  /\ prompted = FALSE
  /\ every_poll = TRUE
  /\ rx_result = None
  /\ source = "scripted"
  /\ stream \in SplitStreams(fn) \cup WholeStreams(fn)
  /\ arrived = 0

SpecSplit == InitSplit /\ [][NextIO]_vars

\* ---------------------------------------------------------------- i2c_read

\* send_command(ser, cmd, delay=0.2), line 304
ReadDelay == 200
\* timeout = time.time() + 2, line 307
ReadTimeout == 2000
\* time.sleep(0.1), line 311
PollI2cRead == 100

\* re.match(r'^\s*(3\.[23]V\s*)+$', new_data), line 315
SupplyOnly(new_data) ==
  /\ Contains(new_data, Volt)
  /\ \A i \in DOMAIN new_data : new_data[i] \in {Volt, WS}

\* response += new_data + "\n", line 317
Accumulated(resp, new_data) == resp \o new_data \o <<WS>>

\* re.search(r'RX:\s*(0x[0-9A-Fa-f]+)', response) and match.group(1), lines
\* 320-322: the first hex literal that follows an "RX:" at once, or no match
RxSearch(resp) ==
  LET text == Normalize(resp)
      hits == {i \in 1..(Len(text) - 1) : text[i] = RX /\ text[i + 1].k = "0x"}
  IN IF hits = {}
       THEN None
       ELSE LET i == CHOOSE h \in hits : \A j \in hits : h <= j
            IN Result("ok", <<text[i + 1].d>>)

\* What the bridge may send in one piece after a read command.
ReadChunks ==
  {<<>>, <<Volt>>, <<Echo>>, <<I2C>>, <<RX, Hex(<<6, 0>>)>>,
   <<RX, Hex(<<6, 0>>), Hex(<<7, 7>>)>>, <<RX, Hex(<<6, 0>>), I2C>>}

MaxReadChunks == 3

\* The bridge's reply to the read command: up to MaxReadChunks pieces.
ReadStreams == UNION {[1..n -> ReadChunks] : n \in 0..MaxReadChunks}

\* i2c_read is called on an open port; the bridge's reply is one of
\* ReadStreams, one piece arriving during each sleep.
InitRead ==
  /\ pc = "rd_call"
  /\ ser_open = TRUE
  /\ inbuf \in {<<>>, <<Junk>>}
  /\ sent = <<>>
  /\ response = <<>>
  /\ attempt = 0
  /\ init_result = "ser"
  /\ err = "none"
  /\ observed = {}
  /\ shown = {}
  /\ scripted = TRUE
  /\ first = <<>>
  /\ chip_id = None
  /\ raw_sensor_data = <<>>
  /\ adc_T = NoInt
  /\ raw_calib_data = <<>>
  /\ dig_T1 = 0
  /\ dig_T2 = 0
  /\ dig_T3 = 0
  /\ temperature = NoInt
  /\ cycles = 0
  /\ calibrated = FALSE
  /\ stale = FALSE
  /\ fn = "i2c_read"
  /\ delay = 0
  /\ now = 0
  /\ timeout_time = 0
  /\ outcome = "none"
  /\ prompted = FALSE
  /\ every_poll = TRUE
  /\ rx_result = None
  /\ source = "scripted"
  /\ stream \in ReadStreams
  /\ arrived = 0

\* lines 302-304: flush, then send_command(ser, cmd, delay=0.2) is entered
I2cReadCall ==
  /\ pc = "rd_call"
  /\ inbuf' = <<>>
  /\ fn' = "send_command"
  /\ delay' = ReadDelay
  /\ pc' = "io_call"
  /\ UNCHANGED <<sent, response, now, timeout_time, outcome, prompted,
                 every_poll, arrived>>
  /\ UNCHANGED mainVars

\* lines 304-308: send_command has returned, what it returned is dropped, and
\* i2c_read starts its own response and its own deadline
I2cReadWait ==
  /\ pc = "io_ret"
  /\ fn = "send_command"
  /\ fn' = "i2c_read"
  /\ response' = <<>>
  /\ timeout_time' = now + ReadTimeout
  /\ outcome' = "none"
  /\ pc' = "rd_loop"
  /\ UNCHANGED <<inbuf, sent, delay, now, prompted, every_poll, arrived>>
  /\ UNCHANGED mainVars

\* lines 310-327: one turn of the loop: sleep, then read what is pending
I2cReadPoll ==
  /\ pc = "rd_loop"
  /\ Running(now, timeout_time)
  /\ now' = now + PollI2cRead
  /\ arrived' = Rest
  /\ \E chunk \in Delivered(fn, response) :
       LET pending == inbuf \o chunk
           new_data == ReadAll(pending)
           kept == new_data # <<>> /\ ~SupplyOnly(new_data)
           text == IF kept THEN Accumulated(response, new_data) ELSE response
       IN /\ inbuf' = <<>>
          /\ response' = text
          /\ prompted' = (prompted \/ HasPrompt(chunk))
          /\ every_poll' = (every_poll /\ chunk # <<>>)
          /\ IF kept /\ RxSearch(text) # None
               THEN /\ rx_result' = RxSearch(text)
                    /\ outcome' = "rx"
                    /\ pc' = "rd_ret"
               ELSE /\ pc' = "rd_loop"
                    /\ UNCHANGED <<rx_result, outcome>>
  /\ UNCHANGED <<sent, delay, fn, timeout_time>>
  /\ UNCHANGED <<ser_open, attempt, init_result, err, observed, shown, scripted,
                 first, sensorVars, source, stream, stale>>

\* lines 328-332: the loop ended at its deadline, None is returned
I2cReadTimeout ==
  /\ pc = "rd_loop"
  /\ ~Running(now, timeout_time)
  /\ rx_result' = None
  /\ outcome' = "timeout"
  /\ pc' = "rd_ret"
  /\ UNCHANGED <<inbuf, sent, response, delay, fn, now, timeout_time, prompted,
                 every_poll, arrived>>
  /\ UNCHANGED <<ser_open, attempt, init_result, err, observed, shown, scripted,
                 first, sensorVars, source, stream, stale>>

NextRead ==
  \/ I2cReadCall
  \/ SendCommandCall
  \/ SendCommandPoll
  \/ SendCommandSleep
  \/ I2cReadWait
  \/ I2cReadPoll
  \/ I2cReadTimeout

SpecRead == InitRead /\ [][NextRead]_vars

\* ---------------------------------------------------------------- claims

Blank == ""

\* the number of blank lines at the head of a log
RECURSIVE LeadingBlanks(_)
LeadingBlanks(log) ==
  IF log # <<>> /\ Head(log) = Blank THEN 1 + LeadingBlanks(Tail(log)) ELSE 0

\* a log without the blank lines at its head: what followed the wake lines
AfterWakes(log) == SubSeq(log, LeadingBlanks(log) + 1, Len(log))

\* what was written after the mode selector "5"
AfterSelect(log) ==
  LET at == {i \in DOMAIN log : log[i] = "5"}
  IN IF at = {} THEN <<>>
     ELSE SubSeq(log, (CHOOSE i \in at : \A j \in at : i <= j) + 1, Len(log))

\* the command lines initialize_bus_pirate writes
NegotiationCommands == {"", "n", "m", "5", "400", "1", "W", "3.30"}

ModeEntryLog == <<"m", "5", "n", "400", "1", "">>
PowerLog == <<"W", "3.30", "">>

\* C1: with a bridge that answers every command line with the screen the
\* negotiator looks for, initialize_bus_pirate returns the session whether the
\* first response shows the color banner, the I2C prompt or the HiZ prompt,
\* and the three starts take different paths: "n" then mode entry, the power
\* commands alone, mode entry.
C1_ScriptedStartsReachBusReady ==
  (pc = "init_ret" /\ scripted
     /\ (Contains(first, VT100) \/ Contains(first, I2C) \/ Contains(first, HiZ)))
  => /\ init_result = "ser"
     /\ ser_open
     /\ err = "none"
     /\ AfterWakes(sent) =
          IF Contains(first, VT100) THEN <<"n">> \o ModeEntryLog \o PowerLog
          ELSE IF Contains(first, I2C) THEN PowerLog
          ELSE ModeEntryLog \o PowerLog

C1_Witness ==
  /\ pc = "init_ret"
  /\ scripted
  /\ first = <<VT100>>
  /\ init_result = "ser"
  /\ AfterWakes(sent) = <<"n">> \o ModeEntryLog \o PowerLog

\* C2: whenever initialize_bus_pirate has returned the session, the I2C prompt
\* was in one of the responses it read.
C2_SuccessOnlyAfterI2CPrompt == init_result = "ser" => I2C \in observed

\* C3 as amended: one blank line is written before the retry loop and one in
\* each of at most 5 passes, so at most 6 in all; the loop is left at the first
\* pass whose read holds text after decoding and stripping (whitespace and
\* undecodable bytes do not count); and when the fifth pass reads none either,
\* the port is closed, None is returned and nothing more is ever written.
C3_WakeRetries ==
  /\ [](LeadingBlanks(sent) <= 6)
  /\ [](pc = "boot" => attempt <= 4 /\ sent = [i \in 1..(attempt + 1) |-> Blank])
  /\ [](pc = "boot_read" => sent = [i \in 1..(attempt + 2) |-> Blank])
  /\ [][pc = "boot_read" =>
          IF ReadAll(inbuf) # <<>> THEN pc' = "color" /\ init_result' = "pending"
          ELSE IF attempt < 4 THEN pc' = "boot"
          ELSE pc' = "init_ret" /\ init_result' = "None" /\ ~ser_open']_vars
  /\ [](err = "NoResponse" =>
          /\ sent = [i \in 1..6 |-> Blank]
          /\ init_result = "None"
          /\ ~ser_open)

C3_Witness ==
  /\ err = "NoResponse"
  /\ pc = "exit"
  /\ Len(sent) = 6

\* C3 as stated: at most 5 blank lines are written during Boot, a pass after
\* which any bytes were received is the last one, and without any bytes the
\* negotiation fails with the port closed.
C3_AtMostFiveWakes ==
  /\ [][LeadingBlanks(sent') <= 5]_vars
  /\ [][pc = "boot_read" /\ inbuf # <<>> => pc' = "color"]_vars
  /\ [][pc = "boot_read" /\ inbuf = <<>> /\ attempt = 4 =>
          pc' = "init_ret" /\ init_result' = "None" /\ ~ser_open']_vars

\* C4: when the three checks of mode entry are done, "n", "400" and "1" have
\* been written after the selector exactly for the sub-prompts that the bridge
\* printed (settings reuse, speed, clock stretching).
Answer(p) ==
  CASE p = PrevSet -> "n"
    [] p = Speed -> "400"
    [] p = Clock -> "1"

C4_AnswersMatchPromptsShown ==
  pc = "verify" =>
    \A p \in SubPrompts :
      (p \in shown) <=> (Answer(p) \in Range(AfterSelect(sent)))

\* C5: a verifying read without the I2C prompt ends initialize_bus_pirate with
\* the port closed and None returned, and the power command is never written.
C5_ModeEntryFailure ==
  /\ [][pc = "verify" /\ ~Contains(response', I2C) =>
          /\ pc' = "init_ret"
          /\ init_result' = "None"
          /\ ~ser_open'
          /\ err' = "ModeEntryFailed"]_vars
  /\ [](err = "ModeEntryFailed" =>
          /\ "W" \notin Range(sent)
          /\ init_result = "None"
          /\ ~ser_open)

C5_Witness ==
  /\ err = "ModeEntryFailed"
  /\ pc = "exit"
  /\ Contains(first, HiZ)

\* C6: from the power command on, initialize_bus_pirate neither closes the
\* port nor fails, and it returns the session whatever the last response holds.
C6_PowerWarningNotFatal ==
  /\ [][(pc = "power" \/ pc = "current" \/ pc = "confirm") =>
          /\ ser_open'
          /\ init_result' \in {"pending", "ser"}
          /\ err' = "none"]_vars
  /\ [][pc = "confirm" => pc' = "init_ret" /\ init_result' = "ser"]_vars

C6_Witness ==
  /\ pc = "init_ret"
  /\ init_result = "ser"
  /\ ser_open
  /\ I2C \in observed
  /\ ~Contains(response, PowerEn)
  /\ "3.30" \notin Range(sent)

\* C7: once initialize_bus_pirate has failed, the log holds nothing but the
\* negotiation's own command lines, and nothing is written any more.
C7_NoBusCommandAfterFailure ==
  /\ [](init_result = "None" => Range(sent) \subseteq NegotiationCommands)
  /\ [][init_result = "None" => sent' = sent]_vars

C7_Witness ==
  /\ init_result = "None"
  /\ pc = "exit"
  /\ ~ser_open

\* C8: a pass of the sampling loop whose 8-byte read came back without a
\* response field, or with fewer than 8 hex tokens, ends with no temperature
\* and with main back at the top of its loop.
ShortRead(raw) ==
  extract_rx_data(raw) = None \/ Len(extract_rx_data(raw).v) < 8

C8_ShortReadSkipsCycle ==
  (cycles > 0 /\ pc \in {"loop", "crashed"} /\ ShortRead(raw_sensor_data))
  => (pc = "loop" /\ temperature = NoInt)

PollInterval(f) == IF f = "send_command" THEN PollSend ELSE PollRead

\* C9 as stated: a call that was never sent a prompt marker ends on its
\* timeout, and no call is still running later than one poll interval after
\* its 3 s deadline, counted from the start of the call.
C9_DeadlineFromCallStart ==
  /\ (pc = "io_ret" /\ ~prompted) => outcome = "timeout"
  /\ now <= Timeout + PollInterval(fn)

\* C9: every call returns; a call that was never sent a prompt marker ends on
\* its timeout; read_until_prompt's deadline is 3 s after the start of the
\* call and send_command's is 3 s after its delay, and no call is still running
\* later than one poll interval after its deadline, whatever arrives.
C9_BoundedByDeadlineAfterDelay ==
  /\ <>(pc = "io_ret")
  /\ []((pc = "io_ret" /\ ~prompted) => outcome = "timeout")
  /\ [](pc # "io_call" =>
          /\ timeout_time = delay + Timeout
          /\ now <= timeout_time + PollInterval(fn))

C9_Witness ==
  /\ pc = "io_ret"
  /\ fn = "send_command"
  /\ delay = 1000
  /\ outcome = "timeout"
  /\ ~prompted
  /\ every_poll
  /\ now = 4000

\* the hex literals of the contiguous run at the head of a text
RECURSIVE Run(_)
Run(text) ==
  IF text # <<>> /\ Head(text).k = "0x"
    THEN <<Head(text).d>> \o Run(Tail(text))
    ELSE <<>>

\* the response field of a scrubbed text: the run that follows "RX:"
Field(text) ==
  LET i == CHOOSE j \in DOMAIN text : text[j] = RX
  IN Run(SubSeq(text, i + 1, Len(text)))

\* a scrubbed text with exactly one "RX:", followed by at least one hex token
OneField(text) ==
  /\ Cardinality({j \in DOMAIN text : text[j] = RX}) = 1
  /\ Field(text) # <<>>

\* C10: for a response whose scrubbed text holds exactly one response field,
\* extract_rx_data returns the hex tokens of that field, in order, and
\* nothing else.
C10_ExactlyTheFieldTokens ==
  (pc = "rx_ret" /\ OneField(Normalize(StripAnsi(response))))
    => rx_result = Result("ok", Field(Normalize(StripAnsi(response))))

\* C11: when send_command has read a reply that holds noise, in whatever
\* chunks it came, and extract_rx_data has scanned what it returned, the
\* bytes extracted are those of the reply without its noise.
C11_NoiseLeavesFieldIntact ==
  (pc = "rx_ret" /\ stream \in NoisyStreams)
    => rx_result = extract_rx_data(Denoise(Flatten(stream)))

\* how many hex tokens extract_rx_data finds in a response
RxCount(raw) ==
  IF extract_rx_data(raw) = None THEN 0 ELSE Len(extract_rx_data(raw).v)

\* C12: a measurement read that did not return exactly 8 bytes leaves no ADC
\* value and no crash, and a calibration read that did not return exactly 6
\* bytes makes read_calibration_data fail, the constants untouched.
C12_ExactCountOrFailure ==
  /\ (raw_sensor_data # <<>> /\ RxCount(raw_sensor_data) # 8)
       => (adc_T = NoInt /\ pc # "crashed")
  /\ (raw_calib_data # <<>> /\ RxCount(raw_calib_data) # 6)
       => (pc = "exit" /\ dig_T1 = 0 /\ dig_T2 = 0 /\ dig_T3 = 0)

\* C13: while no call of read_calibration_data has returned True,
\* read_temperature has produced no temperature.
C13_NoTemperatureBeforeCalibration ==
  ~calibrated => temperature = NoInt

\* the step is a call of read_calibration_data
CalibrationCall == sent' = sent \o <<"[0xEE 0x88]", "[0xEFr:6]">>

\* C14: whatever is called and in whatever order, the three constants change
\* only in a call of read_calibration_data whose read returned at least 6
\* bytes, and a call whose read was refused leaves them as they were.
C14_ConstantsChangeOnlyByCalibration ==
  /\ [][<<dig_T1, dig_T2, dig_T3>>' # <<dig_T1, dig_T2, dig_T3>>
          => /\ CalibrationCall
             /\ ~CalibrationShort(extract_rx_data(raw_calib_data'))
             /\ calibrated']_vars
  /\ [][(CalibrationCall /\ CalibrationShort(extract_rx_data(raw_calib_data')))
          => <<dig_T1, dig_T2, dig_T3>>' = <<dig_T1, dig_T2, dig_T3>>]_vars

C14_Witness ==
  /\ calibrated
  /\ dig_T1 # 0
  /\ CalibrationShort(extract_rx_data(raw_calib_data))
  /\ adc_T.st = "ok"
  /\ Len(sent) = 6

\* C15: from the raw value 519888 and the constants 27504, 26435 and -1000
\* the compensation yields 2508 hundredths of a degree.
C15_DatasheetExample ==
  (pc = "api" /\ adc_T = Result("ok", 519888)
     /\ dig_T1 = 27504 /\ dig_T2 = 26435 /\ dig_T3 = -1000)
    => temperature = Result("ok", 2508)

C15_Witness ==
  /\ pc = "api"
  /\ adc_T = Result("ok", 519888)
  /\ dig_T1 = 27504
  /\ dig_T2 = 26435
  /\ dig_T3 = -1000
  /\ temperature = Result("ok", 2508)

\* a 16-bit value read as two's complement
Signed16(u) == IF u >= 32768 THEN u - 65536 ELSE u

\* C16: after a successful read_calibration_data the constants are the 6
\* bytes of the read paired low byte first, dig_T1 as an unsigned and dig_T2
\* and dig_T3 as signed 16-bit values.
C16_SignedPacking ==
  (calibrated /\ pc \in {"loop", "measure"} /\ cycles = 0) =>
    LET b == Ints(Take(extract_rx_data(raw_calib_data).v, 6))
    IN /\ dig_T1 = b[1] + 256 * b[2]
       /\ dig_T1 \in 0..65535
       /\ dig_T2 = Signed16(b[3] + 256 * b[4])
       /\ dig_T3 = Signed16(b[5] + 256 * b[6])
       /\ dig_T2 \in -32768..32767
       /\ dig_T3 \in -32768..32767

\* C17: a call whose byte source delivered the two halves of a prompt marker
\* in two consecutive polls has returned on that prompt, before its deadline.
C17_SplitPromptRecognised ==
  (pc = "io_ret" /\ stream \in SplitStreams(fn))
    => (outcome = "prompt" /\ now < timeout_time)

\* C18: no write leaves in the receive buffer bytes that were received
\* before it: what is read after a write came after that write.
C18_FlushedBeforeEachWrite == ~stale

\* the reply as one text, and whether it holds a response field
ReplyText == Normalize(Flatten(stream))
HasField(text) == Contains(text, RX) /\ OneField(text)

\* C19: when the reply to the read command holds a response field, i2c_read
\* returns the byte values of that field and reports no timeout.
C19_FieldIsReturned ==
  (pc = "rd_ret" /\ stream \in ReadStreams /\ HasField(ReplyText))
    => (outcome # "timeout" /\ rx_result = Result("ok", Field(ReplyText)))

\* read_calibration_data has been called in this run of main and refused
CalibrationRefused ==
  raw_calib_data # <<>> /\ CalibrationShort(extract_rx_data(raw_calib_data))

\* main is in its sampling loop, or has been
LoopEntered == pc \in {"loop", "measure"} \/ cycles > 0

\* C20: in main, the loop is entered and a temperature computed only after
\* read_calibration_data has returned True; once it has returned False the
\* loop is never entered and no temperature is produced.
C20_TemperatureOnlyAfterCalibration ==
  /\ (LoopEntered \/ temperature # NoInt)
       => (calibrated /\ raw_calib_data # <<>> /\ ~CalibrationRefused)
  /\ CalibrationRefused
       => (~LoopEntered /\ temperature = NoInt /\ pc = "exit")

\* a temperature computed in the loop, after a successful calibration read
C20_Witness == calibrated /\ temperature.st = "ok" /\ cycles > 0

\* a calibration read refused: main has left without entering the loop
C20_WitnessRefused == CalibrationRefused /\ pc = "exit"

====
